---- MODULE Spec2Model ----
(***************************************************************************)
(* State-machine model of ShopeeAffiliateBot (src/main.py): the scheduler  *)
(* loop run_forever and the operations it calls (get_products,             *)
(* _math_filter, _ai_batch_selector, _ai_polisher, send_to_telegram).      *)
(*                                                                         *)
(* Encoding of values:                                                     *)
(*   - text is a sequence of one-character strings;                        *)
(*   - prices are integers in centavos (45.90 -> 4590), ratings are        *)
(*     integers in hundredths of a star (4.7 -> 470);                      *)
(*   - a field that float() cannot convert (null, garbage) is NotANumber;  *)
(*   - an Optional value is a sequence of length 0 (None) or 1.            *)
(***************************************************************************)
EXTENDS Integers, Sequences, FiniteSets, TLC

VARIABLES
    pc,             \* position of run_forever inside the body of `while True`
    client,         \* self.client is set (an AI client was created)
    sent_products,  \* self.sent_products
    hour,           \* local `hour` of run_forever
    min_int,        \* local `min_int`
    max_int,        \* local `max_int`
    all_products,   \* local `all_products`
    candidates,     \* local `candidates`
    chosen,         \* local `chosen` (Optional product)
    send_ret,       \* what send_to_telegram returned in this cycle
    wait,           \* seconds of the last time.sleep of the loop
    \* ---- history variables: what the current cycle has done so far ----
    outcome,        \* how the cycle has ended ("none" while it is running)
    searches,       \* product-search requests issued in this cycle
    filter_passes,  \* passes of _math_filter over the batch in this cycle
    ai_calls,       \* generate_content calls started in this cycle
    polish_reqs,    \* calls of _ai_polisher in this cycle
    post_reqs,      \* sendPhoto requests issued in this cycle
    post_result,    \* what the messaging backend did with the request
    title_used,     \* the title inside the caption of the request
    sel_mode,       \* how _ai_batch_selector ran: noclient / raise / text
    sel_text,       \* the text the AI answered to the selector
    pol_mode,       \* how _ai_polisher ran: noclient / raise / text
    pol_text,       \* the text the AI answered to the polisher
    reply,          \* the response to the product search of this cycle
    caption,        \* what the caption of the request was composed of (Optional)
    sent_before,    \* sent_products as it was when the cycle began
    \* ---- history variables over the whole run ----
    epoch_count,    \* itemId -> successful posts since the cache was last cleared
    posts_total,    \* successful posts since construction (saturates at MaxPosts)
    ids_posted,     \* itemIds posted successfully since construction
    misses,         \* consecutive cycles ended without a post (saturates at MaxMisses)
    slept,          \* seconds of time.sleep since the last successful post; not
                    \* counted before the first post (saturates at MaxSlept)
    gap,            \* `slept` as the latest successful post found it (Optional)
    \* ---- a direct call of one method on the constructed object ----
    called,         \* the method called and its arguments
    returned        \* what the call returned

locals == <<hour, min_int, max_int, all_products, candidates, chosen, send_ret>>
cycle_trace == <<searches, filter_passes, ai_calls, polish_reqs, post_reqs, post_result,
                 title_used, sel_mode, sel_text, pol_mode, pol_text, reply, caption>>
run_trace == <<epoch_count, posts_total, ids_posted>>
call == <<called, returned>>
spacing == <<slept, gap>>
vars == <<pc, client, sent_products, locals, wait, outcome, cycle_trace, sent_before, run_trace,
          misses, spacing, call>>

----------------------------------------------------------------------------
(* Bounds of the model *)

\* longest product list a search response carries in the model
MaxBatch == 2
\* longest AI answer to the selector, in characters
MaxRespLen == 3
\* the run-wide post counter stops counting here
MaxPosts == 502
\* the count of consecutive cycles without a post stops here
MaxMisses == 2
\* the largest amount, in whole currency units, of a direct call of
\* _calculate_real_discount
MaxAmount == 50
\* the seconds slept since the last successful post stop being counted here
MaxSlept == 1500

----------------------------------------------------------------------------
(* Text *)

UpperCase == <<"A","B","C","D","E","F","G","H","I","J","K","L","M",
               "N","O","P","Q","R","S","T","U","V","W","X","Y","Z","Í">>
LowerCase == <<"a","b","c","d","e","f","g","h","i","j","k","l","m",
               "n","o","p","q","r","s","t","u","v","w","x","y","z","í">>

\* str.lower() on one character
LowerChar(c) ==
    IF \E i \in 1..Len(UpperCase) : UpperCase[i] = c
    THEN LowerCase[CHOOSE i \in 1..Len(UpperCase) : UpperCase[i] = c]
    ELSE c

\* str.lower()
Lower(s) == [i \in 1..Len(s) |-> LowerChar(s[i])]

\* `sub in s` on strings
Contains(s, sub) ==
    \E i \in 0..(Len(s) - Len(sub)) : SubSeq(s, i + 1, i + Len(sub)) = sub

RECURSIVE Flatten(_)
Flatten(ss) == IF ss = <<>> THEN <<>> ELSE Head(ss) \o Flatten(Tail(ss))

\* html.escape on one character (quote=True)
EscapeChar(c) ==
    CASE c = "&"  -> <<"&","a","m","p",";">>
      [] c = "<"  -> <<"&","l","t",";">>
      [] c = ">"  -> <<"&","g","t",";">>
      [] c = "\"" -> <<"&","q","u","o","t",";">>
      [] c = "'"  -> <<"&","#","x","2","7",";">>
      [] OTHER    -> <<c>>

\* html.escape
HtmlEscape(s) == Flatten([i \in 1..Len(s) |-> EscapeChar(s[i])])

\* str.strip() (the only whitespace of the model is the blank)
RECURSIVE Strip(_)
Strip(s) ==
    IF s = <<>> THEN s
    ELSE IF Head(s) = " " THEN Strip(Tail(s))
    ELSE IF s[Len(s)] = " " THEN Strip(SubSeq(s, 1, Len(s) - 1))
    ELSE s

\* str.replace('"', '')
RemoveQuotes(s) == SelectSeq(s, LAMBDA c : c # "\"")

Digits == {"0","1","2","3","4","5","6","7","8","9"}

\* length of the longest run of digits of s that starts at position i
RECURSIVE DigitRun(_, _)
DigitRun(s, i) ==
    IF i <= Len(s) /\ s[i] \in Digits THEN 1 + DigitRun(s, i + 1) ELSE 0

\* where a match of -?\d+ can start
MatchAt(s, i) ==
    \/ s[i] \in Digits
    \/ s[i] = "-" /\ i < Len(s) /\ s[i + 1] \in Digits

\* re.search(r'-?\d+', s): the leftmost, longest match as Optional text
ReSearch(s) ==
    IF \E i \in 1..Len(s) : MatchAt(s, i)
    THEN LET i == CHOOSE k \in 1..Len(s) :
                     MatchAt(s, k) /\ \A j \in 1..(k - 1) : ~MatchAt(s, j)
             n == IF s[i] = "-" THEN 1 + DigitRun(s, i + 1) ELSE DigitRun(s, i)
         IN  <<SubSeq(s, i, i + n - 1)>>
    ELSE <<>>

\* str(idx) for a list index
DigitChars == <<"0","1","2","3","4","5","6","7","8","9">>
RECURSIVE IntToStr(_)
IntToStr(n) ==
    IF n < 10 THEN <<DigitChars[n + 1]>>
    ELSE IntToStr(n \div 10) \o <<DigitChars[(n % 10) + 1]>>

----------------------------------------------------------------------------
(* Products *)

\* a field float() raises on (null, text that is no number); as a sales
\* count, a value that `>=` cannot compare with an int
NotANumber == -1
\* a field float() converts to nan (the text "nan", a NaN of the JSON body)
NaN == -2
\* a key the product record does not carry
Missing == -3

\* product.get(key, 0)
GetOr0(x) == IF x = Missing THEN 0 ELSE x

Parses(x) == x # NotANumber

\* x < y, x <= y and x >= y on floats: a comparison with nan is False
Lt(x, y) == x # NaN /\ y # NaN /\ x < y
Le(x, y) == x # NaN /\ y # NaN /\ x <= y
Ge(x, y) == x # NaN /\ y # NaN /\ x >= y

bad_words == <<
    <<"c","a","p","a">>,
    <<"c","a","p","i","n","h","a">>,
    <<"c","a","s","e">>,
    <<"p","e","l","í","c","u","l","a">>,
    <<"v","i","d","r","o"," ","3","d">>,
    <<"a","d","a","p","t","a","d","o","r">>,
    <<"c","a","b","o"," ","u","s","b">>,
    <<"p","a","r","a","f","u","s","o">>,
    <<"a","d","e","s","i","v","o">>,
    <<"b","a","t","e","r","i","a">> >>

Product(id, name, pmin, pmax, sales, rating) ==
    [itemId |-> id, productName |-> name, priceMin |-> pmin, priceMax |-> pmax,
     sales |-> sales, ratingStar |-> rating]

\* (mutant) the floor lets 19.99 through
BelowFloor_Lax(price) == Lt(price, 1999)

\* price < 20.00
BelowFloor(price) == Lt(price, 2000)

\* (mutant) the blacklist has no exception for dear products
Blacklisted_AnyPrice(price, title) ==
    \E b \in 1..Len(bad_words) : Contains(title, bad_words[b])

\* price < 50.00 and any(bad in title for bad in bad_words)
Blacklisted(price, title) ==
    Lt(price, 5000) /\ \E b \in 1..Len(bad_words) : Contains(title, bad_words[b])

\* (mutant) 60.00 falls outside the mid band
InMidBand_Open(price) == Le(2000, price) /\ Lt(price, 6000)

\* 20.00 <= price <= 60.00
InMidBand(price) == Le(2000, price) /\ Le(price, 6000)

\* (mutant) the relaxed pass asks for no more than the strict one does
RelaxedBounds_Weaker(sales, rating) == sales >= 50 /\ Ge(rating, 430)

\* sales >= 200 and rating >= 4.3
RelaxedBounds(sales, rating) == sales >= 200 /\ Ge(rating, 430)

\* _math_filter.  The except branch: float() raises on the price or the
\* rating, or a comparison raises on the sales; either way the product is
\* rejected, as it is when the rating test fails before the sales are looked at.
math_filter(product, strict) ==
    IF \/ ~Parses(GetOr0(product.priceMin))
       \/ ~Parses(GetOr0(product.ratingStar))
       \/ ~Parses(GetOr0(product.sales))
    THEN FALSE
    ELSE LET price  == GetOr0(product.priceMin)
             sales  == GetOr0(product.sales)
             rating == GetOr0(product.ratingStar)
             title  == Lower(product.productName)
         IN  IF Blacklisted(price, title) THEN FALSE
             ELSE IF BelowFloor(price) THEN FALSE
             ELSE IF strict
                  THEN IF InMidBand(price)
                       THEN Ge(rating, 470) /\ sales >= 100
                       ELSE Ge(rating, 450) /\ sales >= 50
                  ELSE RelaxedBounds(sales, rating)

\* (mutant) an exception inside _math_filter ends the comprehension
FilterBatch_Aborts(batch, strict) ==
    IF \E i \in 1..Len(batch) :
           \/ ~Parses(batch[i].priceMin)
           \/ ~Parses(batch[i].ratingStar)
           \/ ~Parses(batch[i].sales)
    THEN <<>>
    ELSE SelectSeq(batch, LAMBDA p : math_filter(p, strict))

\* [p for p in all_products if self._math_filter(p, strict)]
FilterBatch(batch, strict) == SelectSeq(batch, LAMBDA p : math_filter(p, strict))

Members(batch) == {batch[i] : i \in 1..Len(batch)}

\* (mutant) one pass that keeps what either mode accepts
candidates_of_Merged(batch) ==
    SelectSeq(batch, LAMBDA p : math_filter(p, TRUE) \/ math_filter(p, FALSE))

\* the strict comprehension and, `if not candidates`, the relaxed one
candidates_of(batch) ==
    IF FilterBatch(batch, TRUE) # <<>> THEN FilterBatch(batch, TRUE)
    ELSE FilterBatch(batch, FALSE)

----------------------------------------------------------------------------
(* Floating point.  Amounts are binary64 values; an amount in whole        *)
(* currency units is represented exactly, and so is the difference of two  *)
(* such amounts.  The quotient and the product are rounded to nearest,     *)
(* ties to even.                                                           *)

RECURSIVE Pow2(_)
Pow2(n) == IF n = 0 THEN 1 ELSE 2 * Pow2(n - 1)

\* the greatest k with 2^k <= n, for n >= 1
RECURSIVE Log2(_)
Log2(n) == IF n < 2 THEN 0 ELSE 1 + Log2(n \div 2)

\* the least j with a * 2^j >= b, for 0 < a < b: a/b lies in [2^-j, 2^(1-j))
RECURSIVE Binade(_, _)
Binade(a, b) == IF a >= b THEN 0 ELSE 1 + Binade(2 * a, b)

\* the remainder of r * 2^n divided by b (long division, one bit a step)
RECURSIVE RemainderAfter(_, _, _)
RemainderAfter(r, b, n) ==
    IF n = 0 THEN r ELSE RemainderAfter((2 * r) % b, b, n - 1)

\* int((a / b) * 100) for exactly represented 0 < a <= b.
\* With q the 53-bit significand of a/b, rho the remainder left by the long
\* division and N, t the quotient and remainder of 100a by b:
\*  - t # 0: (a/b)*100 is further from a whole number than the two roundings
\*    can move it (1/b against 2^-46), so the integer part is N;
\*  - t = 0: the product is N exactly when the quotient was rounded up or was
\*    exact; when it was rounded down by rho/b units of its last place the
\*    product lies below N by 100*rho/(b*2^(52+j)), and it rounds back to N
\*    unless that exceeds half the gap between N and the value before it.
PercentOf(a, b) ==
    IF a = b THEN 100
    ELSE LET N == (100 * a) \div b
             t == (100 * a) % b
         IN  IF t # 0 THEN N
             ELSE LET j    == Binade(a, b)
                      prev == RemainderAfter(a, b, 52 + j - 1)
                      odd  == 2 * prev >= b
                      rho  == (2 * prev) % b
                      up   == 2 * rho > b \/ (2 * rho = b /\ odd)
                      k    == Log2(N)
                      e    == IF N = Pow2(k) THEN j + k - 2 ELSE j + k - 1
                  IN  IF up \/ rho = 0 THEN N
                      ELSE IF e >= 0
                           THEN IF 100 * rho > b * Pow2(e) THEN N - 1 ELSE N
                           ELSE IF 100 * rho * Pow2(0 - e) > b THEN N - 1 ELSE N

\* _calculate_real_discount, for p_min >= 0
calculate_real_discount(p_min, p_max) ==
    IF Lt(p_min, p_max) /\ Lt(0, p_max)
    THEN LET discount == PercentOf(p_max - p_min, p_max)
         IN  IF discount >= 5 THEN discount ELSE 0
    ELSE 0

----------------------------------------------------------------------------
(* The headline of the caption *)

\* every pool of header_options has ten entries
PoolSize == 10

\* the n-th entry of a pool; entries 1, 2 and 7 of the super-discount pool
\* carry the discount in their text
Headline(tier, n, discount) ==
    [tier |-> tier, n |-> n,
     pct |-> IF tier = "super" /\ n \in {1, 2, 7} THEN discount ELSE 0]

HeadlinePool(tier, discount) == [n \in 1..PoolSize |-> Headline(tier, n, discount)]

\* (mutant) the sales test comes before the discount test
header_options_SalesFirst(discount, sales, rating, price_min) ==
    IF sales >= 2000 THEN HeadlinePool("viral", discount)
    ELSE IF discount >= 50 THEN HeadlinePool("super", discount)
    ELSE IF Ge(rating, 490) THEN HeadlinePool("top", discount)
    ELSE IF Lt(price_min, 2000) THEN HeadlinePool("bargain", discount)
    ELSE HeadlinePool("default", discount)

\* (mutant) the bargain tier takes the price 20.00 too
header_options_BargainAtFloor(discount, sales, rating, price_min) ==
    IF discount >= 50 THEN HeadlinePool("super", discount)
    ELSE IF sales >= 2000 THEN HeadlinePool("viral", discount)
    ELSE IF Ge(rating, 490) THEN HeadlinePool("top", discount)
    ELSE IF Le(price_min, 2000) THEN HeadlinePool("bargain", discount)
    ELSE HeadlinePool("default", discount)

\* the if/elif chain that fills header_options
header_options(discount, sales, rating, price_min) ==
    IF discount >= 50 THEN HeadlinePool("super", discount)
    ELSE IF sales >= 2000 THEN HeadlinePool("viral", discount)
    ELSE IF Ge(rating, 490) THEN HeadlinePool("top", discount)
    ELSE IF Lt(price_min, 2000) THEN HeadlinePool("bargain", discount)
    ELSE HeadlinePool("default", discount)

\* the part of send_to_telegram between the title and the request: the
\* discount and header_emoji = random.choice(header_options), n being the
\* index drawn.  The fields have been converted by float().
compose(product, n) ==
    LET price_min == GetOr0(product.priceMin)
        price_max == GetOr0(product.priceMax)
        discount  == calculate_real_discount(price_min, price_max)
        sales     == GetOr0(product.sales)
        rating    == GetOr0(product.ratingStar)
    IN  [discount |-> discount,
         header_emoji |-> header_options(discount, sales, rating, price_min)[n]]

----------------------------------------------------------------------------
(* The response to the product search *)

\* kind: "transport_error" (requests.post raises), "http_error"
\* (raise_for_status raises), "not_json" (response.json() raises) or "json".
\* A JSON body has an error list or not, and its chain data ->
\* productOfferV2 -> nodes ends at a key that is absent, at a null or at a
\* list of nodes.
Reply(kind, errors, path, nodes) ==
    [kind |-> kind, errors |-> errors, path |-> path, nodes |-> nodes]

NoReply == Reply("none", FALSE, "none", <<>>)

\* data.get("data", {}).get("productOfferV2", {}).get("nodes", []) inside the
\* try of get_products: .get on a null raises and the except returns []; an
\* absent key gives the default; a null `nodes` is returned as it is (None,
\* which `if all_products` takes for an empty result)
nodes_of(r) ==
    IF r.kind # "json" THEN <<>>
    ELSE IF r.path \in {"data_null", "offer_null"} THEN <<>>
    ELSE IF r.path \in {"data_absent", "offer_absent", "nodes_absent"} THEN <<>>
    ELSE IF r.path = "nodes_null" THEN <<>>
    ELSE r.nodes

----------------------------------------------------------------------------
(* The cache of posted products *)

\* the ceiling of len(self.sent_products)
CacheCeiling == 500

\* (mutant) the clear comes one insert late
Overflows_Late(cache, item_id) == Cardinality(cache \cup {item_id}) > CacheCeiling + 1

\* (mutant) the clear comes on reaching the ceiling
Overflows_Early(cache, item_id) == Cardinality(cache \cup {item_id}) >= CacheCeiling

\* len(self.sent_products) > 500, after the add
Overflows(cache, item_id) == Cardinality(cache \cup {item_id}) > CacheCeiling

\* (mutant) the add is missing
Record_Forgets(cache, item_id) == IF Overflows(cache, item_id) THEN {} ELSE cache

\* (mutant) the clear spares the identifier just added
Record_KeepsNewest(cache, item_id) ==
    IF Overflows(cache, item_id) THEN {item_id} ELSE cache \cup {item_id}

\* self.sent_products.add(item_id); if len(...) > 500: self.sent_products.clear()
Record(cache, item_id) ==
    IF Overflows(cache, item_id) THEN {} ELSE cache \cup {item_id}

\* (mutant) the test is missing
AlreadySent_Never(cache, item_id) == FALSE

\* item_id in self.sent_products
AlreadySent(cache, item_id) == item_id \in cache

----------------------------------------------------------------------------
(* The schedule window *)

\* (mutant) the band ends one hour early
QuietHours_Short(h) == 1 <= h /\ h < 5

\* 1 <= hour < 6
QuietHours(h) == 1 <= h /\ h < 6

\* (mutant) the evening band runs one hour longer
ScheduleWindow_LateEvening(h) ==
    IF 6 <= h /\ h < 8 THEN <<60, 90>>
    ELSE IF (11 <= h /\ h < 14) \/ (18 <= h /\ h <= 22) THEN <<25, 35>>
    ELSE <<50, 60>>

\* the (min_int, max_int) of the hour bands, in minutes
ScheduleWindow(h) ==
    IF 6 <= h /\ h < 8 THEN <<60, 90>>
    ELSE IF (11 <= h /\ h < 14) \/ (18 <= h /\ h < 22) THEN <<25, 35>>
    ELSE <<50, 60>>

\* (mutant) the interval is slept in seconds, not minutes
PostedWaits_Seconds(lo, hi) == {m : m \in lo..hi}

\* random.randint(min_int, max_int) * 60
PostedWaits(lo, hi) == {m * 60 : m \in lo..hi}

----------------------------------------------------------------------------
(* The AI calls.  An answer of generate_content is [kind, text]: kind      *)
(* "raise" is any exception inside the try (transport, quota, a response   *)
(* whose .text is None), kind "text" is a response carrying text.          *)

AiRaise == [kind |-> "raise", text |-> <<>>]
AiText(t) == [kind |-> "text", text |-> t]

\* id_map.get(winner_idx): the keys are str(idx) of the indices of the batch
IdMapGet(cands, winner_idx) ==
    IF \E idx \in 0..(Len(cands) - 1) : IntToStr(idx) = winner_idx
    THEN <<cands[1 + CHOOSE idx \in 0..(Len(cands) - 1) : IntToStr(idx) = winner_idx]>>
    ELSE <<>>

\* (mutant) an index outside the batch returns None instead of falling through
select_winner_NoFallback(cands, answer, k) ==
    IF answer.kind = "raise" THEN <<cands[k]>>
    ELSE LET match == ReSearch(Strip(answer.text))
         IN  IF match = <<>> THEN <<cands[k]>>
             ELSE IF match[1] = <<"-","1">> THEN <<>>
             ELSE IdMapGet(cands, match[1])

\* _ai_batch_selector with a client: what it returns for the AI's answer,
\* k being the index random.choice draws
select_winner(cands, answer, k) ==
    IF answer.kind = "raise" THEN <<cands[k]>>
    ELSE LET match == ReSearch(Strip(answer.text))
         IN  IF match = <<>> THEN <<cands[k]>>
             ELSE IF match[1] = <<"-","1">> THEN <<>>
             ELSE IF IdMapGet(cands, match[1]) # <<>> THEN IdMapGet(cands, match[1])
             ELSE <<cands[k]>>

\* (mutant) the except branch returns an empty title
ai_polisher_NoFallback(has_client, raw_title, answer) ==
    IF ~has_client THEN raw_title
    ELSE IF answer.kind = "raise" THEN <<>>
    ELSE RemoveQuotes(Strip(answer.text))

\* _ai_polisher: the title it returns
ai_polisher(has_client, raw_title, answer) ==
    IF ~has_client THEN raw_title
    ELSE IF answer.kind = "raise" THEN raw_title
    ELSE RemoveQuotes(Strip(answer.text))

----------------------------------------------------------------------------
(* The posting call *)

\* a successful post of one product is counted up to here
MaxRepeat == 2

\* requests.post(self.telegram_url, ...) returns a response ("ok" or
\* "http_error": the status is not looked at) or raises ("transport_error")
PostReturns(result) == result # "transport_error"

\* (mutant) the retry delay doubles with every cycle without a post
SleepAfterSend_Backoff(ret, lo, hi) ==
    IF ret THEN PostedWaits(lo, hi) ELSE {30 * Pow2(misses - 1)}

\* time.sleep(wait) after a post, time.sleep(30) otherwise
SleepAfterSend(ret, lo, hi) == IF ret THEN PostedWaits(lo, hi) ELSE {30}

----------------------------------------------------------------------------
(* The state after construction and before the first cycle *)

NoCount == [x \in {} |-> 0]

Constructed(Clients) ==
    /\ client \in Clients
    /\ sent_products = {}
    /\ hour = 0 /\ min_int = 0 /\ max_int = 0
    /\ all_products = <<>> /\ candidates = <<>> /\ chosen = <<>>
    /\ send_ret = FALSE
    /\ wait = 0
    /\ outcome = "none"
    /\ searches = 0 /\ filter_passes = 0 /\ ai_calls = 0
    /\ polish_reqs = 0 /\ post_reqs = 0 /\ post_result = "none"
    /\ title_used = <<>>
    /\ sel_mode = "none" /\ sel_text = <<>>
    /\ pol_mode = "none" /\ pol_text = <<>>
    /\ reply = NoReply /\ caption = <<>>
    /\ sent_before = {}
    /\ epoch_count = NoCount
    /\ posts_total = 0
    /\ ids_posted = {}
    /\ misses = 0
    /\ slept = 0 /\ gap = <<>>
    /\ called = <<>> /\ returned = <<>>

\* run_forever is about to enter `while True`
Init(Clients) == pc = "hour" /\ Constructed(Clients)

----------------------------------------------------------------------------
(* The steps of one pass through the body of `while True` *)

\* the positions inside the try of run_forever at which a call can raise:
\* the hour lookup, the search, the filter, the ranker and send_to_telegram
\* (rewriter, compose, post).  Between the return of send_to_telegram and
\* the sleep the loop only draws the interval and formats the time.
InTry == {"hour", "fetch", "filter", "rank", "send"}

\* one more cycle has ended without a post
Missed == IF misses < MaxMisses THEN misses + 1 ELSE misses

\* `slept` after a time.sleep(seconds)
Slept(seconds) ==
    IF posts_total = 0 THEN 0
    ELSE IF slept + seconds < MaxSlept THEN slept + seconds ELSE MaxSlept

\* hour = datetime.now().hour and the branch on it.  A new cycle begins: the
\* locals of the previous pass are dead and the cycle's history starts empty.
read_hour(Hs) ==
    /\ pc = "hour"
    /\ \E h \in Hs :
        /\ hour' = h
        /\ IF QuietHours(h)
           THEN /\ min_int' = 0 /\ max_int' = 0
                /\ wait' = 1800
                /\ outcome' = "quiet"
                /\ misses' = Missed
                /\ slept' = Slept(1800)
                /\ pc' = "hour"
           ELSE /\ min_int' = ScheduleWindow(h)[1]
                /\ max_int' = ScheduleWindow(h)[2]
                /\ wait' = 0
                /\ outcome' = "none"
                /\ misses' = misses
                /\ slept' = slept
                /\ pc' = "fetch"
    /\ all_products' = <<>> /\ candidates' = <<>> /\ chosen' = <<>>
    /\ send_ret' = FALSE
    /\ searches' = 0 /\ filter_passes' = 0 /\ ai_calls' = 0
    /\ polish_reqs' = 0 /\ post_reqs' = 0 /\ post_result' = "none"
    /\ title_used' = <<>>
    /\ sel_mode' = "none" /\ sel_text' = <<>>
    /\ pol_mode' = "none" /\ pol_text' = <<>>
    /\ reply' = NoReply /\ caption' = <<>>
    /\ sent_before' = sent_products
    /\ UNCHANGED <<client, sent_products, run_trace, gap, call>>

\* all_products = self.get_products(...) and `if all_products`.  One request
\* is sent and what comes back is read once.
get_products(Replies) ==
    /\ pc = "fetch"
    /\ searches' = searches + 1
    /\ \E r \in Replies :
        /\ reply' = r
        /\ all_products' = nodes_of(r)
    /\ IF all_products' = <<>>
       THEN /\ wait' = 5 /\ outcome' = "empty" /\ misses' = Missed
            /\ slept' = Slept(5) /\ pc' = "hour"
       ELSE /\ pc' = "filter" /\ UNCHANGED <<wait, outcome, misses, slept>>
    /\ UNCHANGED <<client, sent_products, hour, min_int, max_int, candidates, chosen,
                   send_ret, filter_passes, ai_calls, polish_reqs, post_reqs,
                   post_result, title_used, sel_mode, sel_text, pol_mode, pol_text,
                   caption, sent_before, run_trace, gap, call>>

\* the strict pass, the relaxed pass when the strict one keeps nothing, and
\* `if candidates`
filter_candidates ==
    /\ pc = "filter"
    /\ candidates' = candidates_of(all_products)
    /\ filter_passes' = IF FilterBatch(all_products, TRUE) # <<>> THEN 1 ELSE 2
    /\ IF candidates' = <<>>
       THEN /\ wait' = 5 /\ outcome' = "nocand" /\ misses' = Missed
            /\ slept' = Slept(5) /\ pc' = "hour"
       ELSE /\ pc' = "rank" /\ UNCHANGED <<wait, outcome, misses, slept>>
    /\ UNCHANGED <<client, sent_products, hour, min_int, max_int, all_products, chosen,
                   send_ret, searches, ai_calls, polish_reqs, post_reqs,
                   post_result, title_used, sel_mode, sel_text, pol_mode, pol_text,
                   reply, caption, sent_before, run_trace, gap, call>>

\* chosen = self._ai_batch_selector(candidates) and the `chosen and ...` test:
\* a None ends the cycle in the 30 s branch
ai_batch_selector(Answers) ==
    /\ pc = "rank"
    /\ \E k \in 1..Len(candidates) :
        IF ~client
        THEN /\ chosen' = <<candidates[k]>>
             /\ sel_mode' = "noclient" /\ sel_text' = <<>>
             /\ ai_calls' = ai_calls
        ELSE \E answer \in Answers :
             /\ chosen' = select_winner(candidates, answer, k)
             /\ sel_mode' = answer.kind /\ sel_text' = answer.text
             /\ ai_calls' = ai_calls + 1
    /\ IF chosen' = <<>>
       THEN /\ wait' = 30 /\ outcome' = "declined" /\ misses' = Missed
            /\ slept' = Slept(30) /\ pc' = "hour"
       ELSE /\ pc' = "send" /\ UNCHANGED <<wait, outcome, misses, slept>>
    /\ UNCHANGED <<client, sent_products, hour, min_int, max_int, all_products,
                   candidates, send_ret, searches, filter_passes, polish_reqs, post_reqs,
                   post_result, title_used, pol_mode, pol_text, reply, caption,
                   sent_before, run_trace, gap, call>>

\* the history of successful posts after one more of item_id; it starts
\* again when that post clears the cache
Counted(count, item_id, cleared) ==
    IF cleared THEN NoCount
    ELSE [x \in DOMAIN count \cup {item_id} |->
            IF x # item_id THEN count[x]
            ELSE IF x \notin DOMAIN count THEN 1
            ELSE IF count[x] < MaxRepeat THEN count[x] + 1 ELSE count[x]]

\* self.send_to_telegram(chosen), Picks being the indices random.choice can
\* draw from header_options.  A product that reaches the composing of the
\* caption has been through _math_filter, so float() has already accepted
\* its rating and its sales are a number.
send_to_telegram(TitleAnswers, Picks, PostResults) ==
    /\ pc = "send"
    /\ LET product == chosen[1]
           item_id == product.itemId
       IN  IF AlreadySent(sent_products, item_id)
           THEN /\ send_ret' = FALSE /\ outcome' = "duplicate" /\ misses' = Missed
                /\ UNCHANGED <<sent_products, ai_calls, polish_reqs, post_reqs, post_result,
                               title_used, pol_mode, pol_text, caption, run_trace,
                               spacing>>
           ELSE IF \/ ~Parses(GetOr0(product.priceMin))
                   \/ ~Parses(GetOr0(product.priceMax))
           THEN /\ send_ret' = FALSE /\ outcome' = "badprice" /\ misses' = Missed
                /\ UNCHANGED <<sent_products, ai_calls, polish_reqs, post_reqs, post_result,
                               title_used, pol_mode, pol_text, caption, run_trace,
                               spacing>>
           ELSE \E answer \in (IF client THEN TitleAnswers ELSE {AiRaise}),
                   n \in Picks,
                   result \in PostResults :
                /\ polish_reqs' = polish_reqs + 1
                /\ ai_calls' = IF client THEN ai_calls + 1 ELSE ai_calls
                /\ pol_mode' = IF client THEN answer.kind ELSE "noclient"
                /\ pol_text' = IF client THEN answer.text ELSE <<>>
                /\ title_used' = HtmlEscape(ai_polisher(client, product.productName, answer))
                /\ caption' = <<compose(product, n)>>
                /\ post_reqs' = post_reqs + 1
                /\ post_result' = result
                /\ IF PostReturns(result)
                   THEN /\ sent_products' = Record(sent_products, item_id)
                        /\ send_ret' = TRUE /\ outcome' = "posted" /\ misses' = 0
                        /\ epoch_count' = Counted(epoch_count, item_id,
                                               Overflows(sent_products, item_id))
                        /\ posts_total' = IF posts_total < MaxPosts THEN posts_total + 1
                                          ELSE posts_total
                        /\ ids_posted' = ids_posted \cup {item_id}
                        /\ gap' = IF posts_total = 0 THEN <<>> ELSE <<slept>>
                        /\ slept' = 0
                   ELSE /\ send_ret' = FALSE /\ outcome' = "postfail" /\ misses' = Missed
                        /\ UNCHANGED <<sent_products, run_trace, spacing>>
    /\ pc' = "sched"
    /\ UNCHANGED <<client, hour, min_int, max_int, all_products, candidates, chosen,
                   wait, searches, filter_passes, sel_mode, sel_text, reply, sent_before,
                   call>>

\* the two branches after `chosen and self.send_to_telegram(chosen)`
schedule ==
    /\ pc = "sched"
    /\ wait' \in SleepAfterSend(send_ret, min_int, max_int)
    /\ slept' = Slept(wait')
    /\ pc' = "hour"
    /\ UNCHANGED <<client, sent_products, locals, outcome, cycle_trace, sent_before,
                   run_trace, misses, gap, call>>

\* (mutant) no handler at the loop boundary: the exception ends run_forever
loop_fault_uncaught ==
    /\ pc \in InTry
    /\ outcome' = "fault"
    /\ pc' = "stopped"
    /\ UNCHANGED <<client, sent_products, locals, wait, cycle_trace, sent_before,
                   run_trace, misses, spacing, call>>

\* except Exception at the loop boundary: an exception leaves one of the
\* calls of the cycle before that call has changed anything
loop_fault ==
    /\ pc \in InTry
    /\ wait' = 60
    /\ outcome' = "fault"
    /\ misses' = Missed
    /\ slept' = Slept(60)
    /\ pc' = "hour"
    /\ UNCHANGED <<client, sent_products, locals, cycle_trace, sent_before, run_trace,
                   gap, call>>

\* what the search answers when it works: a body without an error list that
\* carries one of the batches, or no result
Served(Pool) ==
    {Reply("json", FALSE, "nodes", nodes) : nodes \in Pool \cup {<<>>}}

Loop(Hs, Pool, Answers, TitleAnswers, Picks, PostResults) ==
    \/ read_hour(Hs)
    \/ get_products(Served(Pool))
    \/ filter_candidates
    \/ ai_batch_selector(Answers)
    \/ send_to_telegram(TitleAnswers, Picks, PostResults)
    \/ schedule
    \/ loop_fault

----------------------------------------------------------------------------
(* A direct call of one method on the constructed object, as a test of    *)
(* the method makes it: the call is made once and returns                 *)

\* self._math_filter(product, strict) for both values of strict
call_math_filter(Products) ==
    /\ pc = "call"
    /\ \E product \in Products :
        /\ called' = <<"_math_filter", product>>
        /\ returned' = [strict  |-> math_filter(product, TRUE),
                        relaxed |-> math_filter(product, FALSE)]
    /\ pc' = "returned"
    /\ UNCHANGED <<client, sent_products, locals, wait, outcome, cycle_trace,
                   sent_before, run_trace, misses, spacing>>

\* self._calculate_real_discount(p_min, p_max)
call_calculate_real_discount(Amounts) ==
    /\ pc = "call"
    /\ \E p_min \in Amounts, p_max \in Amounts :
        /\ called' = <<"_calculate_real_discount", p_min, p_max>>
        /\ returned' = calculate_real_discount(p_min, p_max)
    /\ pc' = "returned"
    /\ UNCHANGED <<client, sent_products, locals, wait, outcome, cycle_trace,
                   sent_before, run_trace, misses, spacing>>

\* the caption self.send_to_telegram(product) puts together
call_compose(Products) ==
    /\ pc = "call"
    /\ \E product \in Products, n \in 1..PoolSize :
        /\ called' = <<"send_to_telegram", product>>
        /\ returned' = compose(product, n)
    /\ pc' = "returned"
    /\ UNCHANGED <<client, sent_products, locals, wait, outcome, cycle_trace,
                   sent_before, run_trace, misses, spacing>>

----------------------------------------------------------------------------
(* What the environment can do: the clock, the search results, the AI's    *)
(* answers and the messaging backend                                       *)

Fone == <<"F","o","n","e">>
KitAB == <<"K","i","t"," ","\"","A","&","B","\"">>
CapaX == <<"C","A","P","A"," ","X">>

\* accepted by the strict pass
GoodProduct(id) == Product(id, Fone, 4500, 9000, 2500, 495)
\* rejected by the strict pass, accepted by the relaxed one
RelaxedProduct(id) == Product(id, KitAB, 3000, 3000, 300, 450)
\* below the price floor
CheapProduct(id) == Product(id, Fone, 1999, 1999, 2500, 495)
\* a blacklisted name under 50.00
CapaProduct(id) == Product(id, CapaX, 3000, 6000, 2500, 495)
\* accepted by the strict pass, with a priceMax that float() raises on
NoMaxProduct(id) == Product(id, Fone, 4500, NotANumber, 2500, 495)
\* accepted by the strict pass (above the mid band), rejected by the relaxed one
StrictOnlyProduct(id) == Product(id, Fone, 7000, 7000, 60, 450)
\* a priceMin that float() raises on
NullPriceProduct(id) == Product(id, Fone, NotANumber, 9000, 2500, 495)
\* no ratingStar key
NoRatingProduct(id) == Product(id, Fone, 4500, 9000, 2500, Missing)
\* sales that cannot be compared with a number
TextSalesProduct(id) == Product(id, Fone, 4500, 9000, NotANumber, 495)
\* no priceMin key
NoPriceProduct(id) == Product(id, Fone, Missing, 9000, 2500, 495)
\* a priceMin that float() converts to nan
NanPriceProduct(id) == Product(id, Fone, NaN, 9000, 2500, 495)

Batches(products) ==
    UNION {[1..n -> products] : n \in 1..MaxBatch}

AllHours == 0..23
PostResultsAll == {"ok", "http_error", "transport_error"}

\* the first and the last entry of a headline pool
EndPicks == {1, PoolSize}

\* every text of at most MaxRespLen characters over the alphabet
RespAlphabet == {"-", "0", "1", "7", "x"}
Texts == UNION {[1..n -> RespAlphabet] : n \in 0..MaxRespLen}

\* ---- the pipeline: every kind of product, a few answers, two hours ----
MainIds == {1, 2}
MainProducts ==
    UNION {{GoodProduct(i), RelaxedProduct(i), CheapProduct(i), CapaProduct(i),
            NoMaxProduct(i)} : i \in MainIds}
MainPool == Batches(MainProducts)
MainHours == {3, 12}
MainAnswers == {AiRaise, AiText(<<"0">>), AiText(<<"-","1">>), AiText(<<"x">>)}
MainTitles == {AiRaise, AiText(<<>>), AiText(<<" ","\"","T","V","\""," ">>)}

Next == Loop(MainHours, MainPool, MainAnswers, MainTitles, EndPicks, PostResultsAll)
Spec == Init(BOOLEAN) /\ [][Next]_vars

\* ---- the clock: every hour of the day, one product ----
ClockPool == {<<GoodProduct(1)>>}
NextClock == Loop(AllHours, ClockPool, {AiRaise}, {AiRaise}, EndPicks, {"ok", "transport_error"})
SpecClock == Init(BOOLEAN) /\ [][NextClock]_vars
FairSpec == SpecClock /\ WF_vars(NextClock)

\* ---- the selector: every answer up to MaxRespLen characters ----
RankPool == Batches({GoodProduct(1), GoodProduct(2)})
RankAnswers == {AiRaise} \cup {AiText(t) : t \in Texts}
NextRank == Loop({12}, RankPool, RankAnswers, {AiRaise}, {1}, {"ok"})
SpecRank == Init(BOOLEAN) /\ [][NextRank]_vars

\* ---- the cache: as many distinct products as it takes to fill it.  Item
\* ids are opaque, so the n-th id new to the cache is taken to be n; a search
\* offers the oldest cached id, the newest cached id or a new one.
CacheIds == {1, Cardinality(sent_products), Cardinality(sent_products) + 1} \ {0}
CachePool == {<<GoodProduct(i)>> : i \in CacheIds}
NextCache ==
    \/ read_hour({12})
    \/ get_products(Served(CachePool))
    \/ filter_candidates
    \/ ai_batch_selector({AiRaise})
    \/ send_to_telegram({AiRaise}, {1}, {"ok", "transport_error"})
    \/ schedule
    \/ loop_fault
SpecCache == Init({FALSE}) /\ [][NextCache]_vars

\* ---- the filter: batches of sound and of malformed products ----
FilterProducts ==
    {GoodProduct(1), RelaxedProduct(2), StrictOnlyProduct(3), CheapProduct(4),
     CapaProduct(5), NullPriceProduct(6), NoRatingProduct(7), TextSalesProduct(8),
     NoPriceProduct(9), NanPriceProduct(10)}
FilterPool == Batches(FilterProducts)
NextFilter == Loop({12}, FilterPool, {AiRaise}, {AiRaise}, {1}, {"ok"})
SpecFilter == Init({FALSE}) /\ [][NextFilter]_vars

\* ---- what gets posted: products on both sides of the floor and of the
\* blacklist, every way the ranker can answer ----
\* at the price floor, accepted by the strict pass, with nothing to boast of
FloorProduct(id) == Product(id, Fone, 2000, 2000, 150, 480)
PostedProducts ==
    {GoodProduct(1), RelaxedProduct(2), CheapProduct(3), CapaProduct(4),
     NanPriceProduct(5), FloorProduct(6)}
PostedPool == Batches(PostedProducts)
NextPosted ==
    Loop({12}, PostedPool, MainAnswers, {AiRaise}, EndPicks, {"ok", "transport_error"})
SpecPosted == Init(BOOLEAN) /\ [][NextPosted]_vars

\* ---- the product search: every kind of response ----
Paths == {"data_absent", "data_null", "offer_absent", "offer_null",
          "nodes_absent", "nodes_null", "nodes"}
Replies(Pool) ==
    {Reply(kind, FALSE, "none", <<>>) : kind \in {"transport_error", "http_error", "not_json"}}
    \cup {Reply("json", errors, path, <<>>) : errors \in BOOLEAN, path \in Paths}
    \cup {Reply("json", errors, "nodes", nodes) : errors \in BOOLEAN, nodes \in Pool}
SourcePool == Batches({GoodProduct(1), CheapProduct(2)})
NextSource ==
    \/ read_hour({3, 12})
    \/ get_products(Replies(SourcePool))
    \/ filter_candidates
    \/ ai_batch_selector({AiRaise})
    \/ send_to_telegram({AiRaise}, {1}, {"ok"})
    \/ schedule
    \/ loop_fault
SpecSource == Init({FALSE}) /\ [][NextSource]_vars

\* ---- direct calls of the pure methods, over grids around their thresholds ----
FilterGrid ==
    {Product(1, name, price, price, sales, rating) :
        name \in {Fone, CapaX},
        price \in {1999, 2000, 4999, 5000, 6000, 6001},
        sales \in {49, 50, 99, 100, 199, 200},
        rating \in {429, 430, 449, 450, 469, 470}}

\* amounts in whole currency units, in centavos
Amounts == {100 * u : u \in 0..MaxAmount}

\* <<priceMin, priceMax>>: 50 %, 49 %, none under 20.00, 50 % under 20.00, none
ComposePrices ==
    {<<4500, 9000>>, <<5100, 10000>>, <<1000, 1000>>, <<1000, 2000>>, <<3000, 3000>>}
ComposeGrid ==
    {Product(1, Fone, prices[1], prices[2], sales, rating) :
        prices \in ComposePrices,
        sales \in {1999, 2000, 2500},
        rating \in {489, 490, 495}}

InitCalls == pc = "call" /\ Constructed({FALSE})
NextCalls ==
    \/ call_math_filter(FilterGrid)
    \/ call_calculate_real_discount(Amounts)
    \/ call_compose(ComposeGrid)
SpecCalls == InitCalls /\ [][NextCalls]_vars

----------------------------------------------------------------------------
(* Properties *)

\* C1 (Spec): whenever send_to_telegram is called for a product whose itemId
\* is in sent_products, the call returns False, issues no posting request,
\* requests no title rewrite (no polisher call, no AI call) and leaves
\* sent_products unchanged.
C1_DedupVeto ==
    [][(pc = "send" /\ pc' = "sched" /\ chosen[1].itemId \in sent_products)
         => /\ send_ret' = FALSE
            /\ post_reqs' = post_reqs
            /\ polish_reqs' = polish_reqs
            /\ ai_calls' = ai_calls
            /\ sent_products' = sent_products]_vars

\* C1: send_to_telegram has returned for a product that was in the cache
\* when the cycle began
C1_Witness ==
    /\ pc = "sched"
    /\ chosen[1].itemId \in sent_before
    /\ ~send_ret /\ post_reqs = 0 /\ polish_reqs = 0

\* C2 (SpecCache): between two consecutive clears of sent_products, and
\* before the first, no itemId is posted successfully more than once.
C2_OncePerEpoch ==
    \A id \in DOMAIN epoch_count : epoch_count[id] <= 1

\* C2: item 1, posted in the first epoch, is posted again right after the
\* clear that ended it
C2_Witness ==
    /\ pc = "sched" /\ outcome = "posted"
    /\ posts_total = 502
    /\ chosen[1].itemId = 1
    /\ epoch_count[1] = 1

\* C3 (Spec), as claimed: when the posting call fails, by a transport error
\* or by a non-success response, send_to_telegram reports failure, the
\* itemId is not recorded and the scheduler sleeps 30 s.
C3_FailedPostNotRecorded ==
    post_result \in {"http_error", "transport_error"}
        => /\ ~send_ret
           /\ chosen[1].itemId \notin sent_products
           /\ (pc = "hour" /\ outcome # "fault" => wait = 30)

\* C3 (Spec), the part the code keeps: the same for a transport error alone.
C3_TransportErrorNotRecorded ==
    post_result = "transport_error"
        => /\ ~send_ret
           /\ chosen[1].itemId \notin sent_products
           /\ (pc = "hour" /\ outcome # "fault" => wait = 30)

\* C4 (SpecCache): in every state between operations sent_products holds at
\* most 500 identifiers.
C4_CacheBound == Cardinality(sent_products) <= 500

\* C4: the cache is full
C4_Witness == Cardinality(sent_products) = 500

\* C5 (SpecCache): starting from the empty cache, after k <= 500 successful
\* posts of distinct identifiers the cache holds exactly those k
\* identifiers, and after the 501st it is empty.
C5_ClearOnOverflow ==
    /\ posts_total <= 500
         => sent_products = ids_posted /\ Cardinality(sent_products) = posts_total
    /\ posts_total = 501
         => sent_products = {} /\ Cardinality(ids_posted) = 501

\* C5: the 501st post has just emptied the cache
C5_Witness ==
    pc = "sched" /\ outcome = "posted" /\ posts_total = 501 /\ sent_products = {}

\* C6 (FairSpec): a fault of any stage is caught at the loop boundary and
\* followed by the 60 s sleep; the loop can always take a step (there is no
\* terminal state); and after a fault a new cycle eventually starts.
C6_LoopNeverStops ==
    /\ [](outcome = "fault" => pc = "hour" /\ wait = 60)
    /\ [](ENABLED NextClock)
    /\ (outcome = "fault") ~> (outcome \in {"none", "quiet"})

\* C6: the send stage has raised after a product was chosen
C6_Witness ==
    outcome = "fault" /\ chosen # <<>> /\ pc = "hour" /\ wait = 60

\* the selector did not get a usable answer: no client, an exception, or a
\* text with no integer or with an integer that is neither -1 nor an index
SelectorFailed ==
    \/ sel_mode \in {"noclient", "raise"}
    \/ /\ sel_mode = "text"
       /\ LET match == ReSearch(Strip(sel_text))
          IN  \/ match = <<>>
              \/ match[1] # <<"-","1">> /\ IdMapGet(candidates, match[1]) = <<>>

\* C7 (Spec), as claimed: in a cycle in which every AI call raised, answered
\* malformed text (for the polisher: no title at all) or had no client, the
\* chosen product was not in the cache and the posting call succeeded, the
\* product is posted and the title used is the raw title (HTML-escaped).
C7_AiNeverSolePath_AsClaimed ==
    ( /\ pc = "sched"
      /\ SelectorFailed
      /\ \/ pol_mode \in {"noclient", "raise"}
         \/ pol_mode = "text" /\ Strip(pol_text) = <<>>
      /\ chosen[1].itemId \notin sent_before
      /\ post_result = "ok" )
        => send_ret /\ title_used = HtmlEscape(chosen[1].productName)

\* C7 (Spec), amended: the same when the polisher raised or had no client;
\* a text the polisher did answer, even an empty one, is the title used
\* (stripped, without double quotes, HTML-escaped).
C7_AiNeverSolePath ==
    /\ ( /\ pc = "sched"
         /\ SelectorFailed
         /\ pol_mode \in {"noclient", "raise"}
         /\ chosen[1].itemId \notin sent_before
         /\ post_result = "ok" )
           => send_ret /\ title_used = HtmlEscape(chosen[1].productName)
    /\ (pc = "sched" /\ pol_mode = "text" /\ post_reqs = 1)
           => title_used = HtmlEscape(RemoveQuotes(Strip(pol_text)))

\* C7: both AI calls raised and the product went out under its raw title
C7_Witness ==
    /\ pc = "sched" /\ client
    /\ sel_mode = "raise" /\ pol_mode = "raise"
    /\ post_result = "ok" /\ send_ret
    /\ chosen[1].productName = KitAB
    /\ title_used = <<"K","i","t"," ","&","q","u","o","t",";","A","&","a","m","p",";",
                      "B","&","q","u","o","t",";">>

\* the integer a matched text denotes
RECURSIVE NatOf(_)
NatOf(s) ==
    IF s = <<>> THEN 0
    ELSE 10 * NatOf(SubSeq(s, 1, Len(s) - 1))
         + (CHOOSE d \in 0..9 : DigitChars[d + 1] = s[Len(s)])
IntOf(s) == IF Head(s) = "-" THEN 0 - NatOf(Tail(s)) ELSE NatOf(s)

\* C8 (SpecRank): for a non-empty batch _ai_batch_selector returns a member
\* of the batch or None; None only when the integer extracted from the
\* answer is -1; a missing client, an exception, an answer without an
\* integer or with an integer that is neither -1 nor an index of the batch
\* all give a member of the batch.
C8_SelectorResult ==
    sel_mode # "none" =>
        LET match == ReSearch(Strip(sel_text))
        IN  /\ chosen = <<>> \/ chosen[1] \in Members(candidates)
            /\ chosen = <<>> =>
                    sel_mode = "text" /\ match # <<>> /\ IntOf(match[1]) = -1
            /\ ( \/ sel_mode \in {"noclient", "raise"}
                 \/ match = <<>>
                 \/ IntOf(match[1]) \notin (0..(Len(candidates) - 1)) \cup {-1} )
                   => chosen # <<>>

\* C8: the answer "-10" starts like the sentinel and is another negative
C8_Witness ==
    /\ sel_mode = "text" /\ sel_text = <<"-","1","0">>
    /\ Len(candidates) = 2
    /\ chosen # <<>> /\ chosen[1] \in Members(candidates)

\* C9 (SpecClock): a cycle whose hour, read at its start, lies in 1..5 ends
\* in that step with the 1800 s sleep, without a search, a filter pass, an
\* AI call or a post and with sent_products unchanged; no cycle is past its
\* hour lookup with a quiet hour.
C9_QuietHours ==
    /\ [][(pc = "hour" /\ outcome' # "fault" /\ 1 <= hour' /\ hour' < 6)
            => /\ pc' = "hour" /\ wait' = 1800
               /\ searches' = 0 /\ filter_passes' = 0 /\ ai_calls' = 0
               /\ polish_reqs' = 0 /\ post_reqs' = 0
               /\ sent_products' = sent_products]_vars
    /\ [](pc # "hour" => ~(1 <= hour /\ hour < 6))

\* C9: a cycle read the last quiet hour
C9_Witness ==
    pc = "hour" /\ outcome = "quiet" /\ hour = 5 /\ wait = 1800 /\ searches = 0

\* the window the claim gives for a non-quiet hour, in minutes
ClaimedWindow(h) ==
    IF h \in {6, 7} THEN 60..90
    ELSE IF h \in (11..13) \cup (18..21) THEN 25..35
    ELSE 50..60

\* C10 (SpecClock): after a successful post the sleep before the next cycle
\* is a whole number of minutes inside the window of the hour read at the
\* start of the cycle: 6-7h [60, 90], 11-13h and 18-21h [25, 35], any other
\* non-quiet hour [50, 60].
C10_PostedCadence ==
    (pc = "hour" /\ outcome = "posted")
        => /\ ~(1 <= hour /\ hour < 6)
           /\ \E m \in ClaimedWindow(hour) : wait = 60 * m

\* C10: a post at 22h, the first hour after the evening band
C10_Witness ==
    pc = "hour" /\ outcome = "posted" /\ hour = 22 /\ wait = 50 * 60

\* the ways a cycle ends without a post, and the delay that follows each
NonPosting ==
    {"empty", "nocand", "declined", "duplicate", "badprice", "postfail", "fault"}
FlatDelay(o) ==
    CASE o \in {"empty", "nocand"} -> 5
      [] o \in {"declined", "duplicate", "badprice", "postfail"} -> 30
      [] o = "fault" -> 60

RECURSIVE Survivors(_, _)
Survivors(batch, strict) ==
    IF batch = <<>> THEN <<>>
    ELSE (IF math_filter(Head(batch), strict) THEN <<Head(batch)>> ELSE <<>>)
         \o Survivors(Tail(batch), strict)

\* C12 (SpecFilter): once the filter has run, the batch of candidates is the
\* strict survivors of the fetch, in fetch order and after one pass, when
\* there is at least one; otherwise it is the relaxed survivors, after two
\* passes.
C12_StrictThenRelaxed ==
    filter_passes > 0 =>
        IF \E i \in 1..Len(all_products) : math_filter(all_products[i], TRUE)
        THEN candidates = Survivors(all_products, TRUE) /\ filter_passes = 1
        ELSE candidates = Survivors(all_products, FALSE) /\ filter_passes = 2

\* C12: the ranker is handed the one strict survivor of a fetch whose other
\* product only the relaxed mode accepts
C12_Witness ==
    /\ pc = "send"
    /\ all_products = <<RelaxedProduct(2), GoodProduct(1)>>
    /\ math_filter(RelaxedProduct(2), FALSE)
    /\ candidates = <<GoodProduct(1)>>

\* the name, lowercased, contains a blacklisted substring
NameListed(name) == \E b \in 1..Len(bad_words) : Contains(Lower(name), bad_words[b])

\* _math_filter has been called on a product and has returned
FilterReturned == pc = "returned" /\ called[1] = "_math_filter"

\* C13 (SpecCalls): a product priced below 20.00 is rejected in both modes
\* whatever its name, rating and sales; a product priced 20.00 is judged by
\* the other rules alone (blacklist, then the thresholds of the mode).
C13_PriceFloor ==
    FilterReturned =>
        LET p == called[2]
        IN  /\ p.priceMin < 2000 => ~returned.strict /\ ~returned.relaxed
            /\ p.priceMin = 2000 =>
                /\ returned.strict <=> /\ ~NameListed(p.productName)
                                       /\ p.ratingStar >= 470 /\ p.sales >= 100
                /\ returned.relaxed <=> /\ ~NameListed(p.productName)
                                        /\ p.sales >= 200 /\ p.ratingStar >= 430

\* C13: a product priced exactly 20.00 is accepted by the strict mode
C13_Witness ==
    /\ FilterReturned
    /\ called[2] = Product(1, Fone, 2000, 2000, 100, 470)
    /\ returned.strict

\* the same product under a name that is not blacklisted
Renamed(p) == [p EXCEPT !.productName = Fone]

\* C14 (SpecCalls): a product with a blacklisted name is rejected in both
\* modes when its price is below 50.00; from 50.00 on it is accepted exactly
\* when the same product with a harmless name is.
C14_BlacklistException ==
    (FilterReturned /\ NameListed(called[2].productName)) =>
        LET p == called[2]
        IN  /\ p.priceMin < 5000 => ~returned.strict /\ ~returned.relaxed
            /\ p.priceMin >= 5000 =>
                /\ returned.strict = math_filter(Renamed(p), TRUE)
                /\ returned.relaxed = math_filter(Renamed(p), FALSE)

\* C14: "CAPA X" at 50.00 is accepted
C14_Witness ==
    /\ FilterReturned
    /\ called[2] = Product(1, CapaX, 5000, 5000, 100, 470)
    /\ returned.strict

\* C15 (SpecCalls): a product that the floor and the blacklist let through
\* is accepted by the strict mode iff its price is in 20.00..60.00 with
\* rating >= 4.7 and sales >= 100, or above 60.00 with rating >= 4.5 and
\* sales >= 50.
C15_StrictThresholds ==
    ( /\ FilterReturned
      /\ called[2].priceMin >= 2000
      /\ ~(called[2].priceMin < 5000 /\ NameListed(called[2].productName)) ) =>
        LET p == called[2]
        IN  returned.strict <=>
                \/ /\ 2000 <= p.priceMin /\ p.priceMin <= 6000
                   /\ p.ratingStar >= 470 /\ p.sales >= 100
                \/ /\ p.priceMin > 6000
                   /\ p.ratingStar >= 450 /\ p.sales >= 50

\* C15: 60.00 is in the mid band: a rating of 4.69 is not enough there
C15_Witness ==
    /\ FilterReturned
    /\ called[2] = Product(1, Fone, 6000, 6000, 200, 469)
    /\ ~returned.strict

\* C16 (SpecCalls): among the products the filter is called on, one is
\* accepted by the strict mode and rejected by the relaxed mode, and one is
\* accepted by the relaxed mode and rejected by the strict mode; the calls
\* on those two products return just that.
C16_ModesIncomparable ==
    /\ \E p \in FilterGrid : math_filter(p, TRUE) /\ ~math_filter(p, FALSE)
    /\ \E p \in FilterGrid : math_filter(p, FALSE) /\ ~math_filter(p, TRUE)
    /\ (FilterReturned /\ called[2] = Product(1, Fone, 6001, 6001, 50, 450))
            => returned.strict /\ ~returned.relaxed
    /\ (FilterReturned /\ called[2] = Product(1, Fone, 2000, 2000, 200, 430))
            => returned.relaxed /\ ~returned.strict

\* C16: 60.01 with 50 sales and 4.5 stars passes the strict mode only
C16_Witness ==
    /\ FilterReturned
    /\ called[2] = Product(1, Fone, 6001, 6001, 50, 450)
    /\ returned.strict /\ ~returned.relaxed

\* _calculate_real_discount has been called and has returned
DiscountReturned == pc = "returned" /\ called[1] = "_calculate_real_discount"

\* C17 (SpecCalls), as claimed: _calculate_real_discount(min, max) is
\* floor(100 * (max - min) / max) when max > min > 0 and that is at least 5,
\* and 0 in every other case.
C17_DiscountComputation ==
    DiscountReturned =>
        LET p_min == called[2]
            p_max == called[3]
        IN  returned = IF /\ p_max > p_min /\ p_min > 0
                          /\ (100 * (p_max - p_min)) \div p_max >= 5
                       THEN (100 * (p_max - p_min)) \div p_max
                       ELSE 0

\* C17 (SpecCalls), the claim for max > min > 0 alone: the value is the
\* floor, or 0 when the floor is below 5.
C17_DiscountOfPositiveAmounts ==
    (DiscountReturned /\ called[3] > called[2] /\ called[2] > 0) =>
        LET floor == (100 * (called[3] - called[2])) \div called[3]
        IN  returned = IF floor >= 5 THEN floor ELSE 0

\* C17 (SpecCalls), what the code keeps: the value is 0 or at least 5, it is
\* 0 when max <= min, it is never above the floor and never more than one
\* below it, and it is the floor when 100 * (max - min) / max is no whole
\* number.
C17_DiscountWithinOneOfFloor ==
    DiscountReturned =>
        LET p_min == called[2]
            p_max == called[3]
        IN  /\ returned = 0 \/ returned >= 5
            /\ p_max <= p_min => returned = 0
            /\ p_max > p_min =>
                LET floor == (100 * (p_max - p_min)) \div p_max
                IN  /\ returned \in {0, floor - 1, floor}
                    /\ (100 * (p_max - p_min)) % p_max # 0
                          => returned = IF floor >= 5 THEN floor ELSE 0

\* the tier the precedence of the claim selects
ClaimedTier(discount, sales, rating, price_min) ==
    LET holds == [t \in {"super", "viral", "top", "bargain", "default"} |->
                    CASE t = "super"   -> discount >= 50
                      [] t = "viral"   -> sales >= 2000
                      [] t = "top"     -> rating >= 490
                      [] t = "bargain" -> price_min < 2000
                      [] t = "default" -> TRUE]
        order == <<"super", "viral", "top", "bargain", "default">>
        first == CHOOSE i \in 1..5 : holds[order[i]] /\ \A j \in 1..(i - 1) : ~holds[order[j]]
    IN  order[first]

\* send_to_telegram has been called on a product and has composed the caption
ComposeReturned == pc = "returned" /\ called[1] = "send_to_telegram"

\* C18 (SpecCalls): the headline belongs to the pool of the first tier that
\* matches in the order discount >= 50, sales >= 2000, rating >= 4.9,
\* price < 20.00, default; the product priced 45.00 of 90.00 with 2500 sales
\* and 4.95 stars gets discount 50 and a super-discount headline.
C18_HeadlineTier ==
    ComposeReturned =>
        LET p    == called[2]
            tier == ClaimedTier(returned.discount, p.sales, p.ratingStar, p.priceMin)
        IN  /\ returned.header_emoji.tier = tier
            /\ \E n \in 1..10 :
                   returned.header_emoji = HeadlinePool(tier, returned.discount)[n]
            /\ (p.priceMin = 4500 /\ p.priceMax = 9000 /\ p.sales = 2500 /\ p.ratingStar = 495)
                   => returned.discount = 50 /\ tier = "super"

\* C18: the product of the example got a super-discount headline that shows
\* its 50 %
C18_Witness ==
    /\ ComposeReturned
    /\ called[2] = Product(1, Fone, 4500, 9000, 2500, 495)
    /\ returned.discount = 50
    /\ returned.header_emoji = [tier |-> "super", n |-> 1, pct |-> 50]

\* the request failed in transport, came back with an error status, or came
\* back with a body that carries an error list
SearchFailed(r) ==
    \/ r.kind \in {"transport_error", "http_error"}
    \/ r.kind = "json" /\ r.errors

\* C19 (SpecSource), as claimed: every call of get_products sends exactly
\* one request and returns to the scheduler; when the request failed
\* (transport error, non-success status, body with an error list) it returns
\* the empty list, and the cycle ends as an empty fetch.
C19_SourceFailurePolicy ==
    [][(pc = "fetch" /\ searches' # searches) =>
          /\ searches' = 1
          /\ pc' \in {"hour", "filter"} /\ outcome' # "fault"
          /\ SearchFailed(reply') =>
                all_products' = <<>> /\ outcome' = "empty" /\ pc' = "hour"]_vars

\* C19 (SpecSource), what the code keeps: one request a call and no
\* exception; a transport error, an error status, a body that is no JSON
\* and a body whose chain data -> productOfferV2 -> nodes does not end in a
\* list give the empty list, with or without an error list in the body.
C19_NoNodesNoProducts ==
    [][(pc = "fetch" /\ searches' # searches) =>
          /\ searches' = 1
          /\ pc' \in {"hour", "filter"} /\ outcome' # "fault"
          /\ (reply'.kind # "json" \/ reply'.path # "nodes") =>
                all_products' = <<>> /\ outcome' = "empty" /\ pc' = "hour" /\ wait' = 5]_vars

\* a field that is missing or that the coercion fails on
Malformed(x) == x \in {NotANumber, Missing}
MalformedProduct(p) ==
    Malformed(p.priceMin) \/ Malformed(p.ratingStar) \/ Malformed(p.sales)

\* C20 (SpecFilter): once the filter has run over a fetch, no product with a
\* missing price, rating or sales field, or with one the coercion fails on,
\* is among the candidates, and every other product the mode of that cycle
\* accepts is.
C20_MalformedRejected ==
    filter_passes > 0 =>
        \A i \in 1..Len(all_products) :
            LET p == all_products[i]
            IN  /\ MalformedProduct(p)
                     => /\ ~math_filter(p, TRUE) /\ ~math_filter(p, FALSE)
                        /\ p \notin Members(candidates)
                /\ (~MalformedProduct(p) /\ math_filter(p, filter_passes = 1))
                     => p \in Members(candidates)

\* C20: the product fetched after one with a null price is the candidate
C20_Witness ==
    /\ pc = "send"
    /\ all_products = <<NullPriceProduct(6), GoodProduct(1)>>
    /\ candidates = <<GoodProduct(1)>>

\* C21 (SpecCache), as claimed: whenever send_to_telegram has returned True
\* for a product, that product's itemId is in sent_products when the next
\* cycle begins.
C21_PostedIdPersisted ==
    (pc = "hour" /\ outcome = "posted") => chosen[1].itemId \in sent_products

\* C21 (SpecCache), amended: when the next cycle begins after
\* send_to_telegram returned True for a product, sent_products is the cache
\* the call found plus that product's itemId, unless the add took the cache
\* beyond 500 identifiers: then sent_products is empty and the itemId is not
\* in it.
C21_PostedIdPersistedUnlessCleared ==
    (pc = "hour" /\ outcome = "posted")
        => IF Cardinality(sent_before \cup {chosen[1].itemId}) > 500
           THEN sent_products = {}
           ELSE sent_products = sent_before \cup {chosen[1].itemId}

\* C21: the next cycle is about to begin after the 500th post, which filled
\* the cache and is in it
C21_Witness ==
    /\ pc = "hour" /\ outcome = "posted"
    /\ Cardinality(sent_before) = 499
    /\ chosen[1].itemId \notin sent_before
    /\ chosen[1].itemId \in sent_products

\* send_to_telegram has issued the posting call of this cycle
PostingCallIssued == post_reqs > 0

\* C22 (SpecPosted), as claimed: every product for which the loop issues a
\* posting call is one of the candidates the filter kept from the fetch of
\* that cycle, passed _math_filter in the mode used, and so has priceMin >=
\* 20.00, rating >= 4.3, sales >= 50 and, when priced below 50.00, a name
\* without a blacklisted substring.
C22_PostedWithinFilterBounds ==
    PostingCallIssued =>
        LET product == chosen[1]
        IN  /\ product \in Members(candidates)
            /\ candidates = Survivors(all_products, filter_passes = 1)
            /\ math_filter(product, filter_passes = 1)
            /\ Ge(product.priceMin, 2000)
            /\ Ge(product.ratingStar, 430)
            /\ product.sales >= 50
            /\ (Lt(product.priceMin, 5000) => ~NameListed(product.productName))

\* C22 (SpecPosted), the part the code keeps: the same without the price
\* floor, which holds for every posted price that is an amount.
C22_PostedPassedFilter ==
    PostingCallIssued =>
        LET product == chosen[1]
        IN  /\ product \in Members(candidates)
            /\ candidates = Survivors(all_products, filter_passes = 1)
            /\ math_filter(product, filter_passes = 1)
            /\ (product.priceMin # NaN => Ge(product.priceMin, 2000))
            /\ Ge(product.ratingStar, 430)
            /\ product.sales >= 50
            /\ (Lt(product.priceMin, 5000) => ~NameListed(product.productName))

\* C23 (SpecPosted): no posting call issued by the loop carries a headline
\* of the bargain pool (price < 20.00), every candidate having passed the
\* price floor of 20.00.
C23_BargainUnreachable ==
    PostingCallIssued => caption[1].header_emoji.tier # "bargain"

\* C23: from a fetch that also held a product under 20.00, the loop has
\* posted the product priced exactly 20.00 that no earlier tier takes, under
\* a headline of the default pool
C23_Witness ==
    /\ PostingCallIssued
    /\ all_products = <<CheapProduct(3), FloorProduct(6)>>
    /\ chosen = <<FloorProduct(6)>>
    /\ caption[1].header_emoji.tier = "default"

\* C24 (Spec): a cycle issues at most one product search and at most one
\* posting call, and between two consecutive successful posts the loop has
\* slept at least 1500 s (25 minutes), whatever failures, duplicates and hour
\* changes came in between.
C24_MinimumSpacing ==
    /\ searches <= 1
    /\ post_reqs <= 1
    /\ (gap # <<>> => gap[1] >= 1500)

\* C24: a second product has been posted, in a cycle that made one search
\* and one posting call, after the first one was posted
C24_Witness ==
    /\ pc = "sched" /\ outcome = "posted"
    /\ searches = 1 /\ post_reqs = 1
    /\ sent_before # {}
    /\ gap # <<>> /\ gap[1] >= 1500

====
